---------------------------- MODULE Spec2Model ----------------------------
(***************************************************************************)
(* A model of read_books.py: the batch driver main(), the page analyser    *)
(* process_page, the summarizer analyze_knowledge_base, the knowledge      *)
(* store (load_existing_knowledge / save_knowledge_base), the summary      *)
(* writer save_summary and setup_directories.                              *)
(*                                                                         *)
(* File names are sequences of one-character strings, so that the          *)
(* f-string formatting, str.replace and Path.glob of the source are        *)
(* computed rather than assumed.                                           *)
(***************************************************************************)
EXTENDS Integers, Sequences, FiniteSets, TLC

(***************************************************************************)
(* Bounds of the model.                                                    *)
(***************************************************************************)
\* pages in the input directory, all documents together
MaxPages == 3
\* documents in the input directory
MaxDocs == 2
\* largest ANALYSIS_INTERVAL tried
MaxInterval == 3
\* largest TEST_PAGES tried
MaxLimit == 2
\* knowledge points the model returns for one page
MaxNew == 1
\* runs of the program (one restart is MaxRuns = 2)
MaxRuns == 2

\* the word limit of the filter before summarization
WordLimit == 50

(***************************************************************************)
(* Strings.                                                                *)
(***************************************************************************)
StartsWith(s, p) == Len(s) >= Len(p) /\ SubSeq(s, 1, Len(p)) = p

RECURSIVE Remove(_, _)
\* Python's s.replace(p, ''): every non-overlapping occurrence of p, left to
\* right, is removed.
Remove(s, p) ==
  IF s = <<>> THEN <<>>
  ELSE IF StartsWith(s, p) THEN Remove(SubSeq(s, Len(p) + 1, Len(s)), p)
  ELSE <<Head(s)>> \o Remove(Tail(s), p)

\* pdf_name.replace('.pdf', '')
StripPdf(pdf_name) == Remove(pdf_name, <<".", "p", "d", "f">>)

Digits == <<"0", "1", "2", "3", "4", "5", "6", "7", "8", "9">>

RECURSIVE Decimal(_)
Decimal(n) ==
  IF n < 10 THEN <<Digits[n + 1]>>
  ELSE Decimal(n \div 10) \o <<Digits[(n % 10) + 1]>>

\* f"{next_number:03d}": at least three digits, zero padded
Format03d(n) ==
  LET d == Decimal(n)
  IN  IF Len(d) >= 3 THEN d
      ELSE [i \in 1..(3 - Len(d)) |-> "0"] \o d

RECURSIVE FindClose(_, _)
\* the index of the first "]" of pat at or after j, 0 when there is none
FindClose(pat, j) ==
  IF j > Len(pat) THEN 0
  ELSE IF pat[j] = "]" THEN j
  ELSE FindClose(pat, j + 1)

\* pat[1] = "[": the index of the "]" that closes the character class, 0 when
\* the class is not closed (the "[" is then an ordinary character).  A "]"
\* right after "[" or "[!" is a member of the class.
ClassClose(pat) ==
  LET j0 == IF Len(pat) >= 2 /\ pat[2] = "!" THEN 3 ELSE 2
      j1 == IF Len(pat) >= j0 /\ pat[j0] = "]" THEN j0 + 1 ELSE j0
  IN  FindClose(pat, j1)

RECURSIVE fnmatch(_, _)
\* The shell-style matching Path.glob applies to a file name: "*" matches any
\* run of characters, "?" any one character, "[seq]" any one character of seq
\* and "[!seq]" any one character not in seq.
fnmatch(name, pat) ==
  IF pat = <<>> THEN name = <<>>
  ELSE IF Head(pat) = "*"
    THEN \E k \in 0..Len(name) :
           fnmatch(SubSeq(name, k + 1, Len(name)), Tail(pat))
  ELSE IF name = <<>> THEN FALSE
  ELSE IF Head(pat) = "?" THEN fnmatch(Tail(name), Tail(pat))
  ELSE IF Head(pat) = "[" /\ ClassClose(pat) # 0
    THEN LET c   == ClassClose(pat)
             neg == pat[2] = "!"
             mem == {pat[j] : j \in (IF neg THEN 3 ELSE 2)..(c - 1)}
         IN  ((Head(name) \in mem) # neg)
             /\ fnmatch(Tail(name), SubSeq(pat, c + 1, Len(pat)))
  ELSE Head(name) = Head(pat) /\ fnmatch(Tail(name), Tail(pat))

\* SUMMARIES_DIR.glob(pattern): the files of the directory whose name matches
glob(dir, pattern) == {f \in DOMAIN dir : fnmatch(f, pattern)}


(***************************************************************************)
(* Exceptions.  An operation's result carries the class of the exception   *)
(* that left it, or "none".                                                *)
(***************************************************************************)
\* the base class of an exception class (Python's hierarchy; GoogleAPIError
\* stands for the errors of a failed request, google.api_core.exceptions)
BaseOf(cls) ==
  CASE cls = "JSONDecodeError"   -> "ValueError"
    [] cls = "ValueError"        -> "Exception"
    [] cls = "GoogleAPIError"    -> "Exception"
    [] cls = "OSError"           -> "Exception"
    [] cls = "RuntimeError"      -> "Exception"
    [] cls = "Exception"         -> "BaseException"
    [] cls = "KeyboardInterrupt" -> "BaseException"
    [] OTHER                     -> "object"

RECURSIVE IsSubclass(_, _)
IsSubclass(cls, base) ==
  IF cls = base THEN TRUE
  ELSE IF cls \in {"object", "none"} THEN FALSE
  ELSE IsSubclass(BaseOf(cls), base)

\* "except handler:" catches the raised exception exc
Catches(handler, exc) == exc # "none" /\ IsSubclass(exc, handler)

(***************************************************************************)
(* Knowledge items: a string or a dict, with the number of words of the    *)
(* string, or of the dict's "point" (0 when it has none).                  *)
(***************************************************************************)
Items ==
  { [type |-> "str",  words |-> WordLimit],
    [type |-> "dict", words |-> WordLimit + 1] }

RECURSIVE SeqsUpTo(_, _)
SeqsUpTo(S, n) ==
  IF n = 0 THEN {<<>>}
  ELSE LET shorter == SeqsUpTo(S, n - 1)
       IN  shorter \cup {Append(q, x) : q \in {r \in shorter : Len(r) = n - 1}, x \in S}

(***************************************************************************)
(* KnowledgeStore.                                                         *)
(***************************************************************************)
\* KNOWLEDGE_DIR / f"{pdf_name.replace('.pdf', '')}_knowledge.json"
KnowledgePath(pdf_name) ==
  StripPdf(pdf_name)
    \o <<"_", "k", "n", "o", "w", "l", "e", "d", "g", "e", ".", "j", "s", "o", "n">>

\* a variant of save_knowledge_base that opens the file to append: the new
\* list follows what the file held
save_knowledge_base_append(dir, knowledge_base, pdf_name) ==
  LET output_path == KnowledgePath(pdf_name)
      old == IF output_path \in DOMAIN dir THEN dir[output_path].knowledge
             ELSE <<>>
  IN  [f \in DOMAIN dir \cup {output_path} |->
         IF f = output_path THEN [knowledge |-> old \o knowledge_base]
         ELSE dir[f]]

\* open(output_path, 'w'); json.dump({"knowledge": knowledge_base}, f)
save_knowledge_base(dir, knowledge_base, pdf_name) ==
  LET output_path == KnowledgePath(pdf_name)
  IN  [f \in DOMAIN dir \cup {output_path} |->
         IF f = output_path THEN [knowledge |-> knowledge_base] ELSE dir[f]]

load_existing_knowledge(dir, pdf_name) ==
  LET knowledge_file == KnowledgePath(pdf_name)
  IN  IF knowledge_file \in DOMAIN dir
        THEN dir[knowledge_file].knowledge
        ELSE <<>>

(***************************************************************************)
(* PageAnalyzer.  A response to the page prompt: call is "ok" or the class *)
(* of the exception of model.generate_content / response.text; parses says *)
(* whether json5.loads accepts the text; has_content and knowledge are the *)
(* values result.get() then yields.                                        *)
(***************************************************************************)
PageResponses ==
  [call : {"GoogleAPIError"}, parses : {FALSE}, has_content : {FALSE},
   knowledge : {<<>>}]
  \cup
  [call : {"ok"}, parses : {FALSE}, has_content : {FALSE}, knowledge : {<<>>}]
  \cup
  [call : {"ok"}, parses : {TRUE}, has_content : BOOLEAN,
   knowledge : SeqsUpTo(Items, MaxNew)]

\* a variant of TryParse that does not test has_content
TryParseAnyContent(resp, current_knowledge) ==
  IF ~resp.parses
    THEN [exc |-> "ValueError", updated_knowledge |-> current_knowledge]
    ELSE [exc |-> "none",
          updated_knowledge |-> current_knowledge \o resp.knowledge]

\* lines 89-100: the body of the try block.  json5.loads raises ValueError on
\* text it cannot parse.
TryParse(resp, current_knowledge) ==
  IF ~resp.parses
    THEN [exc |-> "ValueError", updated_knowledge |-> current_knowledge]
  ELSE IF resp.has_content
    THEN [exc |-> "none",
          updated_knowledge |-> current_knowledge \o resp.knowledge]
  ELSE [exc |-> "none", updated_knowledge |-> current_knowledge]

\* process_page: [exc, updated_knowledge, dir] where dir is KNOWLEDGE_DIR after
\* the call
process_page(resp, current_knowledge, dir, pdf_name) ==
  IF resp.call # "ok"
    THEN [exc |-> resp.call, updated_knowledge |-> current_knowledge,
          dir |-> dir]
  ELSE LET t == TryParse(resp, current_knowledge)
       IN  IF t.exc # "none" /\ ~Catches("JSONDecodeError", t.exc)
             THEN [exc |-> t.exc, updated_knowledge |-> current_knowledge,
                   dir |-> dir]
             ELSE [exc |-> "none", updated_knowledge |-> t.updated_knowledge,
                   dir |-> save_knowledge_base(dir, t.updated_knowledge, pdf_name)]

(***************************************************************************)
(* Summarizer.                                                             *)
(***************************************************************************)
\* the filter of main, lines 267 and 274
Eligible(item) ==
  \/ item.type = "dict" /\ item.words <= WordLimit
  \/ item.type = "str" /\ item.words <= WordLimit

FilterKnowledge(knowledge_base) == SelectSeq(knowledge_base, Eligible)

\* what the summary request yields: markdown text, an empty text, or an
\* exception of model.generate_content / response.text
ModelOutcomes == {"text", "empty", "ValueError", "GoogleAPIError"}

\* analyze_knowledge_base: [exc, text, called]; called says whether the model
\* was asked.  The text is "" or "md" (any non-empty markdown).
analyze_knowledge_base(outcome, knowledge_base) ==
  IF knowledge_base = <<>>
    THEN [exc |-> "none", text |-> "", called |-> FALSE]
  ELSE IF outcome = "text"
    THEN [exc |-> "none", text |-> "md", called |-> TRUE]
  ELSE IF outcome = "empty"
    THEN [exc |-> "none", text |-> "", called |-> TRUE]
  ELSE IF Catches("ValueError", outcome)
    THEN [exc |-> "none", text |-> "", called |-> TRUE]
  ELSE [exc |-> outcome, text |-> "", called |-> TRUE]

(***************************************************************************)
(* SummaryWriter.                                                          *)
(***************************************************************************)
KindTag(is_final) ==
  IF is_final THEN <<"_", "f", "i", "n", "a", "l", "_">>
  ELSE <<"_", "i", "n", "t", "e", "r", "v", "a", "l", "_">>

\* f"{pdf_name.replace('.pdf', '')}_final_*.md" and its interval twin
SummaryPattern(is_final, pdf_name) ==
  StripPdf(pdf_name) \o KindTag(is_final) \o <<"*", ".", "m", "d">>

\* f"{pdf_name.replace('.pdf', '')}_final_{next_number:03d}.md"
SummaryPath(is_final, pdf_name, next_number) ==
  StripPdf(pdf_name) \o KindTag(is_final) \o Format03d(next_number)
    \o <<".", "m", "d">>

\* lines 175-181: the path save_summary writes to
NextSummaryPath(dir, is_final, pdf_name) ==
  LET existing_summaries == glob(dir, SummaryPattern(is_final, pdf_name))
      next_number == Cardinality(existing_summaries) + 1
  IN  SummaryPath(is_final, pdf_name, next_number)

\* save_summary: [dir, path], SUMMARIES_DIR after the call and the path the
\* call wrote to (<<>> when it wrote nothing)
save_summary(dir, summary, is_final, pdf_name) ==
  IF summary = "" THEN [dir |-> dir, path |-> <<>>]
  ELSE LET summary_path == NextSummaryPath(dir, is_final, pdf_name)
       IN  [dir  |-> [f \in DOMAIN dir \cup {summary_path} |->
                        IF f = summary_path
                          THEN [book |-> pdf_name, summary |-> summary]
                          ELSE dir[f]],
            path |-> summary_path]

\* setup_directories: every file of KNOWLEDGE_DIR and SUMMARIES_DIR is
\* unlinked; a directory is a function from file names to contents
EmptyDir == [f \in {} |-> 0]
setup_directories(dir) == EmptyDir

(***************************************************************************)
(* The state of a run of main() and of the two output directories.         *)
(***************************************************************************)
VARIABLES
  pc,                 \* where main() is
  run,                \* the number of this run of the program
  pdf_files,          \* get_pdf_files(INPUT_BOOKS_DIR): <<[name, page_count]>>
  ANALYSIS_INTERVAL,  \* 0 stands for None (both are falsy at line 261)
  TEST_PAGES,         \* None or a number of pages
  doc,                \* index in pdf_files of the document main() is at
  page_num,           \* the page index of the loop at line 254
  pages_to_process,   \* line 251
  knowledge_base,     \* main()'s knowledge_base
  KNOWLEDGE_DIR,      \* file name -> contents
  SUMMARIES_DIR,      \* file name -> contents
  status,             \* per document: Pending, Processing, Done, Failed
  events,             \* history: the summarizer calls made for document doc
  last,               \* history: the last step taken and what it was given
  clobbered,          \* history: summary files written over by save_summary
  all_skipped         \* history: no page of document doc had content so far

vars ==
  << pc, run, pdf_files, ANALYSIS_INTERVAL, TEST_PAGES, doc, page_num,
     pages_to_process, knowledge_base, KNOWLEDGE_DIR, SUMMARIES_DIR, status,
     events, last, clobbered, all_skipped >>

\* TEST_PAGES = None
None == 0 - 1

NameA == <<"a", ".", "p", "d", "f">>
NameBracket == <<"[", "a", "]", ".", "p", "d", "f">>
NameTwice == <<"a", ".", "p", "d", "f", ".", "p", "d", "f">>

\* the file names the input directory may hold
PdfNames == {NameA, NameBracket, NameTwice}

Books == [name : PdfNames, page_count : 1..MaxPages]

RECURSIVE TotalPages(_)
TotalPages(d) == IF d = <<>> THEN 0 ELSE Head(d).page_count + TotalPages(Tail(d))

\* the input directories: up to MaxDocs documents of distinct names, in the
\* order glob yields them, of at most MaxPages pages all together
InputDirs ==
  {d \in SeqsUpTo(Books, MaxDocs) :
     /\ \A i, j \in 1..Len(d) : d[i].name = d[j].name => i = j
     /\ TotalPages(d) <= MaxPages}

NoResponse ==
  [call |-> "none", parses |-> FALSE, has_content |-> FALSE, knowledge |-> <<>>]

\* a history record of a step that is neither a page nor a summary
Step(op, exc) ==
  [op |-> op, exc |-> exc, resp |-> NoResponse, before |-> <<>>,
   filtered |-> <<>>, called |-> FALSE, outcome |-> "none", text |-> ""]

Running == {"load", "open", "page", "interval", "final"}
Ended == {"cancelled", "no_pdfs", "crashed", "interrupted", "complete"}

Min(a, b) == IF a <= b THEN a ELSE b

TypeOK ==
  /\ pc \in Running \cup Ended \cup {"prompt"}
  /\ run \in 1..MaxRuns
  /\ pdf_files \in InputDirs
  /\ ANALYSIS_INTERVAL \in 0..MaxInterval
  /\ TEST_PAGES \in {None} \cup 1..MaxLimit
  /\ doc \in 0..Len(pdf_files)
  /\ page_num \in 0..MaxPages
  /\ status \in [1..Len(pdf_files) -> {"Pending", "Processing", "Done", "Failed"}]

Init ==
  /\ pc = "prompt"
  /\ run = 1
  /\ pdf_files \in InputDirs
  /\ ANALYSIS_INTERVAL \in 0..MaxInterval
  /\ TEST_PAGES \in {None} \cup 1..MaxLimit
  /\ doc = 0
  /\ page_num = 0
  /\ pages_to_process = 0
  /\ knowledge_base = <<>>
  /\ KNOWLEDGE_DIR = EmptyDir
  /\ SUMMARIES_DIR = EmptyDir
  /\ status = [i \in 1..Len(pdf_files) |-> "Pending"]
  /\ events = <<>>
  /\ last = Step("start", "none")
  /\ clobbered = {}
  /\ all_skipped = TRUE

config == << pdf_files, ANALYSIS_INTERVAL, TEST_PAGES >>

(***************************************************************************)
(* main(), lines 222-227: Ctrl+C at the prompt.                            *)
(***************************************************************************)
Cancel ==
  /\ pc = "prompt"
  /\ pc' = "cancelled"
  /\ last' = Step("prompt", "KeyboardInterrupt")
  /\ UNCHANGED << run, config, doc, page_num, pages_to_process,
                  knowledge_base, KNOWLEDGE_DIR, SUMMARIES_DIR, status, events,
                  clobbered, all_skipped >>

(***************************************************************************)
(* main(), lines 229-240: setup_directories, the API configuration and     *)
(* get_pdf_files.  exc is the error of directory creation or of the API    *)
(* configuration, raised after the old files were unlinked.                *)
(***************************************************************************)
Setup ==
  /\ pc = "prompt"
  /\ \E exc \in {"none", "OSError"} :
       /\ KNOWLEDGE_DIR' = setup_directories(KNOWLEDGE_DIR)
       /\ SUMMARIES_DIR' = setup_directories(SUMMARIES_DIR)
       /\ last' = Step("setup", exc)
       /\ pc' = IF exc # "none" THEN "crashed"
                ELSE IF pdf_files = <<>> THEN "no_pdfs"
                ELSE "load"
  /\ UNCHANGED << run, config, doc, page_num, pages_to_process,
                  knowledge_base, status, events, clobbered, all_skipped >>

\* where main() goes when it is done with document d: the next turn of the
\* loop at line 242, or line 284
AfterDoc(d) == IF d = Len(pdf_files) THEN "complete" ELSE "load"

(***************************************************************************)
(* main(), lines 243-247: the next document and its knowledge base.  The   *)
(* call is outside the try block: an error of the read leaves main().      *)
(***************************************************************************)
LoadDoc ==
  /\ pc = "load"
  /\ doc' = doc + 1
  /\ \E exc \in {"none", "OSError"} :
       /\ last' = Step("load", exc)
       /\ IF exc # "none"
            THEN /\ pc' = "crashed"
                 /\ UNCHANGED << knowledge_base, status >>
            ELSE /\ pc' = "open"
                 /\ knowledge_base' =
                      load_existing_knowledge(KNOWLEDGE_DIR, pdf_files[doc + 1].name)
                 /\ status' = [status EXCEPT ![doc + 1] = "Processing"]
  /\ events' = <<>>
  /\ page_num' = 0
  /\ all_skipped' = TRUE
  /\ UNCHANGED << run, config, pages_to_process, KNOWLEDGE_DIR, SUMMARIES_DIR,
                  clobbered >>

\* line 280: except Exception around the processing of one document
Fail(op_record) ==
  /\ status' = [status EXCEPT ![doc] = "Failed"]
  /\ pc' = AfterDoc(doc)
  /\ last' = op_record

\* line 251
PagesToProcess(page_count) ==
  IF TEST_PAGES # None THEN TEST_PAGES ELSE page_count

(***************************************************************************)
(* main(), lines 250-254: fitz.open and the number of pages to process.    *)
(***************************************************************************)
OpenDoc ==
  /\ pc = "open"
  /\ \E exc \in {"none", "RuntimeError"} :
       IF Catches("Exception", exc)
         THEN /\ Fail(Step("open", exc))
              /\ UNCHANGED pages_to_process
         ELSE /\ pages_to_process' = PagesToProcess(pdf_files[doc].page_count)
              /\ last' = Step("open", "none")
              /\ IF Min(pages_to_process', pdf_files[doc].page_count) > 0
                   THEN /\ pc' = "page"
                        /\ UNCHANGED status
                   ELSE /\ pc' = AfterDoc(doc)
                        /\ status' = [status EXCEPT ![doc] = "Done"]
  /\ UNCHANGED << run, config, doc, page_num, knowledge_base, KNOWLEDGE_DIR,
                  SUMMARIES_DIR, events, clobbered, all_skipped >>

\* a variant of IntervalDue that does not test is_final_page
IntervalDueAnyPage(interval, page, total) ==
  /\ interval # 0
  /\ (page + 1) % interval = 0

\* lines 261-265: the interval summary is due after this page
IntervalDue(interval, page, total) ==
  /\ interval # 0
  /\ (page + 1) % interval = 0
  /\ ~(page + 1 = total)

\* line 272: the final summary is due after this page
FinalDue(page, total) == page + 1 = total

\* line 254: the loop goes on to the next page, or line 278
NextPage ==
  IF page_num + 1 < Min(pages_to_process, pdf_files[doc].page_count)
    THEN /\ pc' = "page"
         /\ page_num' = page_num + 1
         /\ UNCHANGED status
    ELSE /\ pc' = AfterDoc(doc)
         /\ status' = [status EXCEPT ![doc] = "Done"]
         /\ UNCHANGED page_num

(***************************************************************************)
(* main(), lines 255-258: one page through process_page.                   *)
(***************************************************************************)
PageStep ==
  /\ pc = "page"
  /\ \E resp \in PageResponses :
       LET r == process_page(resp, knowledge_base, KNOWLEDGE_DIR,
                             pdf_files[doc].name)
           rec == [Step("page", r.exc) EXCEPT !.resp = resp,
                                              !.before = knowledge_base]
       IN  IF Catches("Exception", r.exc)
             THEN /\ Fail(rec)
                  /\ UNCHANGED << knowledge_base, KNOWLEDGE_DIR, page_num,
                                  all_skipped >>
             ELSE /\ knowledge_base' = r.updated_knowledge
                  /\ all_skipped' = (all_skipped /\ ~resp.has_content)
                  /\ KNOWLEDGE_DIR' = r.dir
                  /\ last' = rec
                  /\ IF IntervalDue(ANALYSIS_INTERVAL, page_num, pages_to_process)
                       THEN pc' = "interval" /\ UNCHANGED << page_num, status >>
                     ELSE IF FinalDue(page_num, pages_to_process)
                       THEN pc' = "final" /\ UNCHANGED << page_num, status >>
                     ELSE NextPage
  /\ UNCHANGED << run, config, doc, pages_to_process, SUMMARIES_DIR, events,
                  clobbered >>

\* lines 267-269 and 274-276: filter, analyze_knowledge_base, save_summary
Summarize(is_final, outcome) ==
  LET filtered_knowledge_base == FilterKnowledge(knowledge_base)
      a == analyze_knowledge_base(outcome, filtered_knowledge_base)
      kind == IF is_final THEN "final" ELSE "interval"
      rec == [Step(kind, a.exc) EXCEPT !.filtered = filtered_knowledge_base,
                                       !.called = a.called,
                                       !.outcome = IF a.called THEN outcome
                                                   ELSE "none",
                                       !.text = a.text,
                                       !.before = knowledge_base]
      w == save_summary(SUMMARIES_DIR, a.text, is_final, pdf_files[doc].name)
  IN  IF Catches("Exception", a.exc)
        THEN /\ Fail(rec)
             /\ UNCHANGED << SUMMARIES_DIR, events, clobbered, page_num >>
        ELSE /\ SUMMARIES_DIR' = w.dir
             /\ events' = Append(events, [kind |-> kind, page |-> page_num + 1,
                                          text |-> a.text, path |-> w.path])
             /\ clobbered' =
                  IF w.path \in DOMAIN SUMMARIES_DIR
                    THEN clobbered \cup {w.path} ELSE clobbered
             /\ last' = rec
             /\ IF ~is_final /\ FinalDue(page_num, pages_to_process)
                  THEN pc' = "final" /\ UNCHANGED << page_num, status >>
                  ELSE NextPage

(***************************************************************************)
(* main(), lines 265-269: the interval summary.                            *)
(***************************************************************************)
IntervalStep ==
  /\ pc = "interval"
  /\ \E outcome \in ModelOutcomes : Summarize(FALSE, outcome)
  /\ UNCHANGED << run, config, doc, pages_to_process, knowledge_base,
                  KNOWLEDGE_DIR, all_skipped >>

(***************************************************************************)
(* main(), lines 272-276: the final summary.                               *)
(***************************************************************************)
FinalStep ==
  /\ pc = "final"
  /\ \E outcome \in ModelOutcomes : Summarize(TRUE, outcome)
  /\ UNCHANGED << run, config, doc, pages_to_process, knowledge_base,
                  KNOWLEDGE_DIR, all_skipped >>

(***************************************************************************)
(* Ctrl+C (or the death of the process) while the batch runs:              *)
(* KeyboardInterrupt is no Exception, line 280 does not catch it.          *)
(***************************************************************************)
Interrupt ==
  /\ pc \in Running
  /\ ~Catches("Exception", "KeyboardInterrupt")
  /\ pc' = "interrupted"
  /\ last' = Step("interrupt", "KeyboardInterrupt")
  /\ UNCHANGED << run, config, doc, page_num, pages_to_process,
                  knowledge_base, KNOWLEDGE_DIR, SUMMARIES_DIR, status, events,
                  clobbered, all_skipped >>

(***************************************************************************)
(* The program is started again: the memory of the process is new, the     *)
(* files are what the previous run left.  last.op keeps how that run ended.*)
(***************************************************************************)
Restart ==
  /\ pc \in Ended
  /\ run < MaxRuns
  /\ run' = run + 1
  /\ pc' = "prompt"
  /\ doc' = 0
  /\ page_num' = 0
  /\ pages_to_process' = 0
  /\ knowledge_base' = <<>>
  /\ status' = [i \in 1..Len(pdf_files) |-> "Pending"]
  /\ events' = <<>>
  /\ clobbered' = {}
  /\ all_skipped' = TRUE
  /\ last' = Step(pc, "none")
  /\ UNCHANGED << config, KNOWLEDGE_DIR, SUMMARIES_DIR >>

Next ==
  \/ Cancel
  \/ Setup
  \/ LoadDoc
  \/ OpenDoc
  \/ PageStep
  \/ IntervalStep
  \/ FinalStep
  \/ Interrupt
  \/ Restart

Spec == Init /\ [][Next]_vars

\* the runs whose input directory holds one document
InitOneBook == Init /\ Len(pdf_files) = 1

SpecOneBook == InitOneBook /\ [][Next]_vars

(***************************************************************************)
(* The claims.                                                             *)
(***************************************************************************)
IsFinal(e) == e.kind = "final"
FinalEvents == SelectSeq(events, IsFinal)

\* the pages main() processes of document doc
PagesProcessed == Min(pages_to_process, pdf_files[doc].page_count)

\* C1: a document whose pages were all processed without error (it is Done)
\* had the Summarizer run for a final summary exactly once, as the last
\* summarizer call and after the last page processed, whatever the interval
\* and the page limit.
C1_FinalSummaryOnce ==
  (doc >= 1 /\ status[doc] = "Done") =>
    /\ Len(FinalEvents) = 1
    /\ events[Len(events)].kind = "final"
    /\ events[Len(events)].page = PagesProcessed

\* C2: when the response to a page cannot be parsed, no exception leaves
\* process_page, the knowledge base is what it was, and the document is not
\* abandoned.
C2_UnparsablePageIsSkipped ==
  (last.op = "page" /\ last.resp.call = "ok" /\ ~last.resp.parses) =>
    /\ last.exc = "none"
    /\ knowledge_base = last.before
    /\ status[doc] # "Failed"

\* C3: when the run that follows an interrupted run has set up and reaches its
\* documents, the knowledge file of every document still yields the items the
\* interrupted run had accumulated for it.
C3_RestartReloadsKnowledge ==
  [][ ( /\ run > 1
        /\ pc = "prompt"
        /\ last.op = "interrupted"
        /\ pc' = "load" )
      => \A i \in 1..Len(pdf_files) :
           load_existing_knowledge(KNOWLEDGE_DIR', pdf_files[i].name)
             = load_existing_knowledge(KNOWLEDGE_DIR, pdf_files[i].name) ]_vars

\* C4: when the model request of a summary fails, whatever the failure,
\* analyze_knowledge_base returns the empty text, no summary file is written
\* and the document does not become Failed.
C4_SummaryFailureRecovered ==
  ( /\ last.op \in {"interval", "final"}
    /\ last.outcome \in {"ValueError", "GoogleAPIError"} ) =>
    /\ last.exc = "none"
    /\ last.text = ""
    /\ status[doc] # "Failed"
    /\ events # <<>>
    /\ events[Len(events)].path = <<>>

\* C5: once setup has succeeded no error ends the batch: main() is not left by
\* an exception, and when it returns every document is Done or Failed.
C5_BatchSurvivesDocumentErrors ==
  /\ pc = "crashed" => last.op = "setup"
  /\ pc = "complete" =>
       \A i \in 1..Len(pdf_files) : status[i] \in {"Done", "Failed"}

\* the summaries due through page p of a document of N pages with interval k:
\* an interval summary after each page that is a multiple of k and is not the
\* last one, the final summary after page N
RECURSIVE Schedule(_, _, _)
Schedule(p, k, N) ==
  IF p = 0 THEN <<>>
  ELSE Schedule(p - 1, k, N)
         \o (IF p % k = 0 /\ p # N THEN <<[kind |-> "interval", page |-> p]>>
             ELSE <<>>)
         \o (IF p = N THEN <<[kind |-> "final", page |-> p]>> ELSE <<>>)

\* the summaries written so far for document doc
Written ==
  [i \in 1..Len(events) |-> [kind |-> events[i].kind, page |-> events[i].page]]

IsPrefix(a, b) == Len(a) <= Len(b) /\ SubSeq(b, 1, Len(a)) = a

\* C6: with no page limit, an interval k and every summarizer call returning
\* a non-empty text, the summaries written for a document of N pages are
\* exactly the scheduled ones, each in a file of its own kind: an interval
\* summary after page p when p mod k = 0 and p is not the last page, one final
\* summary after page N, never both after one page.
C6_SummarySchedule ==
  ( /\ doc >= 1
    /\ status[doc] # "Pending"
    /\ TEST_PAGES = None
    /\ ANALYSIS_INTERVAL >= 1
    /\ \A i \in 1..Len(events) : events[i].text # "" ) =>
    LET N == pdf_files[doc].page_count
        k == ANALYSIS_INTERVAL
    IN  /\ IsPrefix(Written, Schedule(N, k, N))
        /\ pc = "page" => Written = Schedule(page_num, k, N)
        /\ status[doc] = "Done" => Written = Schedule(N, k, N)
        /\ \A i \in 1..Len(events) :
             /\ events[i].path \in DOMAIN SUMMARIES_DIR
             /\ SUMMARIES_DIR[events[i].path].book = pdf_files[doc].name
             /\ StartsWith(events[i].path,
                           StripPdf(pdf_files[doc].name)
                             \o KindTag(events[i].kind = "final"))

\* C6 witness: a document of three pages is Done with interval 2, one interval
\* summary (after page 2) and the final summary (after page 3) written
C6_Witness ==
  /\ doc >= 1
  /\ status[doc] = "Done"
  /\ TEST_PAGES = None
  /\ ANALYSIS_INTERVAL = 2
  /\ pdf_files[doc].page_count = 3
  /\ Len(events) = 2
  /\ \A i \in 1..Len(events) : events[i].text # ""

\* a page of document doc has been through process_page
PageFinished ==
  /\ doc >= 1
  /\ \/ pc \in {"interval", "final"}
     \/ pc = "page" /\ page_num >= 1
     \/ status[doc] = "Done"

\* C7: after every page process_page finishes, the knowledge file of the
\* document holds exactly the in-memory knowledge base, in the same order; and
\* at any point of the processing of a document what the file yields is the
\* in-memory base.
C7_FileHoldsKnowledgeBase ==
  /\ PageFinished =>
       /\ KnowledgePath(pdf_files[doc].name) \in DOMAIN KNOWLEDGE_DIR
       /\ KNOWLEDGE_DIR[KnowledgePath(pdf_files[doc].name)]
            = [knowledge |-> knowledge_base]
  /\ (doc >= 1 /\ status[doc] # "Pending") =>
       load_existing_knowledge(KNOWLEDGE_DIR, pdf_files[doc].name)
         = knowledge_base

\* C7 witness: two pages with content are done, the base holds two different
\* items
C7_Witness ==
  /\ PageFinished
  /\ pc = "page"
  /\ page_num = 2
  /\ Len(knowledge_base) = 2
  /\ knowledge_base[1] # knowledge_base[2]

\* C8: save_summary never writes over an existing summary file.
C8_NeverOverwrites == clobbered = {}

\* C9: a summary step whose filtered list is empty asks the model nothing,
\* gets the empty text and writes no file; and a document that is Done with
\* all its pages skipped has an empty knowledge base, had its final summary
\* step invoked and has no summary file.
C9_NothingToSummarize ==
  /\ (last.op \in {"interval", "final"} /\ last.filtered = <<>>) =>
       /\ ~last.called
       /\ last.text = ""
       /\ last.exc = "none"
       /\ events[Len(events)].path = <<>>
  /\ (doc >= 1 /\ status[doc] = "Done" /\ all_skipped) =>
       /\ knowledge_base = <<>>
       /\ FinalEvents # <<>>
       /\ \A f \in DOMAIN SUMMARIES_DIR :
            SUMMARIES_DIR[f].book # pdf_files[doc].name

\* C10: a page whose response has has_content false, or cannot be parsed,
\* leaves the knowledge base of the document as it was, in memory and in the
\* file, whatever knowledge list the response carries.
C10_SkippedPageKeepsKnowledge ==
  ( /\ last.op = "page"
    /\ last.resp.call = "ok"
    /\ (~last.resp.parses \/ ~last.resp.has_content) ) =>
    /\ knowledge_base = last.before
    /\ load_existing_knowledge(KNOWLEDGE_DIR, pdf_files[doc].name) = last.before

\* C10 witness: a response with has_content false and a non-empty knowledge
\* list was processed on a non-empty base
C10_Witness ==
  /\ last.op = "page"
  /\ last.exc = "none"
  /\ last.resp.parses
  /\ ~last.resp.has_content
  /\ last.resp.knowledge # <<>>
  /\ last.before # <<>>
  /\ pc \in Running

=============================================================================
